---- MODULE Spec2Model ----
(***************************************************************************)
(* Model of dev/containerd-metrics/main.go: the consumer loop of           *)
(* serveContainerdMetrics, its three correlation maps and the chain walk   *)
(* of pushContainerMetrics; and of getObjectKey with the three keyed       *)
(* lookups of stateHolder.                                                 *)
(*                                                                         *)
(* Spec: the loop while neither the signal channel nor the error channel   *)
(* delivers. SpecPair: two interleaved image pulls. SpecSelect: the whole  *)
(* three-way select. SpecKey: the keyed lookups.                           *)
(*                                                                         *)
(* Strings handed to strings.Split are sequences of one-character strings; *)
(* snapshot keys, snapshot names and container ids are opaque strings.     *)
(* containerd never emits an empty snapshot key or an empty committed      *)
(* name, so the empty string occurs only as the parent of a base layer.    *)
(* Every handler reads the clock at most once; the reading taken while an  *)
(* event is processed is the variable now; it has advanced since the       *)
(* previous event.                                                         *)
(*                                                                         *)
(* The handlers are operators from the program state before an event to    *)
(* the program state after it, so that the same code can be run on the     *)
(* events of one image pull alone (the variable solo of SpecPair).         *)
(***************************************************************************)
EXTENDS Integers, Sequences, FiniteSets, TLC

\* ---- bounds of the model ----
MaxClock == 6
MaxKeyLen == 3

Keys == {"a", "b"}
Names == {"L0", "L1"}
Parents == Names \cup {""}
Images == { <<"r", "/", "w", "/", "i">>, <<"i">> }

\* SpecPair: two image pulls with disjoint keys, names and image references
Pulls == {"A", "B"}
KeysOf(x) == IF x = "A" THEN {"a"} ELSE {"b"}
NamesOf(x) == IF x = "A" THEN {"L0", "L1"} ELSE {"L2"}
ImageOf(x) == IF x = "A" THEN <<"r", "/", "w", "/", "i">> ELSE <<"i">>

\* SpecSelect: the events of one snapshot key, the signals and the errors
SelKeys == {"a"}
SelNames == {"L0"}
SelParents == SelNames \cup {""}
SelImages == { <<"i">> }
Signals == {"SIGINT", "SIGTERM"}
Errors == {"unavailable", "canceled"}

\* SpecKey: the keys handed to the lookups
KeyChars == {"a", "b", "/"}
KeyInputs == UNION { [1..n -> KeyChars] : n \in 0..MaxKeyLen }
Namespaces == { <<"n">> }

VARIABLES
    prepByKey,      \* map[string]*Prep
    commitByKey,    \* map[string]*Commit
    commitByName,   \* map[string]*Commit
    now,            \* the clock reading taken for the event being processed
    pc,             \* position of the consumer loop
    e,              \* the event taken from the event channel
    out,            \* the log record the handler of e emitted
    solo,           \* SpecPair: per image pull, the program run on that pull's events alone
    sigChan,        \* make(chan os.Signal, 1): the signals not yet received
    errs,           \* the error channel of the subscription
    ret,            \* what serveContainerdMetrics returned
    objKey,         \* the key a lookup of stateHolder is called with
    namespace,      \* stateHolder.namespace
    looked          \* the lister and the key the lookup handed to ByKey

vars == <<prepByKey, commitByKey, commitByName, now, pc, e, out, solo,
          sigChan, errs, ret, objKey, namespace, looked>>
chans == <<sigChan, errs, ret>>
lookup == <<objKey, namespace, looked>>
store == <<prepByKey, commitByKey, commitByName>>

\* ---- Go maps ----
EmptyMap == <<>>
Has(m, k) == k \in DOMAIN m
Put(m, k, v) == [x \in (DOMAIN m) \cup {k} |-> IF x = k THEN v ELSE m[x]]
Restrict(m, S) == [x \in (DOMAIN m) \cap S |-> m[x]]

\* ---- strings.Split(s, sep) for a one-character separator ----
RECURSIVE SplitAcc(_, _, _, _, _)
SplitAcc(s, sep, i, cur, acc) ==
    IF i > Len(s) THEN Append(acc, cur)
    ELSE IF s[i] = sep THEN SplitAcc(s, sep, i + 1, <<>>, Append(acc, cur))
    ELSE SplitAcc(s, sep, i + 1, Append(cur, s[i]), acc)

Split(s, sep) == SplitAcc(s, sep, 1, <<>>, <<>>)

\* ---- the program state as one value ----
State(pbk, cbk, cbn, t, p, ev, o) ==
    [prepByKey |-> pbk, commitByKey |-> cbk, commitByName |-> cbn,
     now |-> t, pc |-> p, e |-> ev, out |-> o]

InitState == State(EmptyMap, EmptyMap, EmptyMap, 0, "select",
                   [kind |-> "none"], [msg |-> "none"])

cur == State(prepByKey, commitByKey, commitByName, now, pc, e, out)

\* ---- the records ----
NewPrep(t, parent) == [T |-> t, Parent |-> parent, Name |-> ""]

\* variant: the duration is measured from the previous event the loop handled
NewCommitSincePrevious(st, key, name, t) ==
    LET p == st.prepByKey[key]
    IN [Dur |-> t - st.now, Name |-> name, Parent |-> p.Parent, Key |-> key]

\* variant: the parent is read from the Prep's Name field, which is never set
NewCommitParentFromName(st, key, name, t) ==
    LET p == st.prepByKey[key]
    IN [Dur |-> t - p.T, Name |-> name, Parent |-> p.Name, Key |-> key]

NewCommit(st, key, name, t) ==
    LET p == st.prepByKey[key]
    IN [Dur |-> t - p.T, Name |-> name, Parent |-> p.Parent, Key |-> key]

NewLayer(c) == [ID |-> c.Name, Prep |-> c.Dur]

\* ---- the events ----
EvPrepare(key, parent) == [kind |-> "SnapshotPrepare", Key |-> key, Parent |-> parent]
EvCommit(key, name) == [kind |-> "SnapshotCommit", Key |-> key, Name |-> name]
EvRemove(key) == [kind |-> "SnapshotRemove", Key |-> key]
EvImageDelete(image) == [kind |-> "ImageDelete", Name |-> image]
EvCreate(id, image) == [kind |-> "ContainerCreate", ID |-> id, Image |-> image]
EvOther == [kind |-> "other"]
EvUndecodable == [kind |-> "undecodable"]

\* ---- typeurl.UnmarshalAny fails: "log; continue" ----
\* variant: the decoding error is returned and ends the loop
OnUndecodableReturns(st) ==
    [st EXCEPT !.out = [msg |-> "skipping event"], !.pc = "returned"]

OnUndecodable(st) == [st EXCEPT !.out = [msg |-> "skipping event"]]

\* ---- case *apievents.SnapshotPrepare ----
\* variant: a Prep already recorded under the key is kept
OnPrepareKeepsFirst(st, key, parent, t) ==
    IF Has(st.prepByKey, key)
    THEN [st EXCEPT !.out = [msg |-> "prep", obj |-> st.prepByKey[key]]]
    ELSE [st EXCEPT !.prepByKey = Put(@, key, NewPrep(t, parent)),
                    !.out = [msg |-> "prep", obj |-> NewPrep(t, parent)]]

OnPrepare(st, key, parent, t) ==
    [st EXCEPT !.prepByKey = Put(@, key, NewPrep(t, parent)),
               !.out = [msg |-> "prep", obj |-> NewPrep(t, parent)]]

\* ---- case *apievents.SnapshotCommit ----
\* "if !ok { log; continue }"
\* variant: the "!ok" check is missing and p.T dereferences nil
CommitMissPanics(st, key, name) ==
    [st EXCEPT !.out = [msg |-> "none"], !.pc = "panic"]

CommitMiss(st, key, name) ==
    [st EXCEPT !.out = [msg |-> "found commit without prep", key |-> key, name |-> name]]

\* the commit case leaves prepByKey as it is
\* variant: "delete(prepByKey, evt.Key)" once the commit matched
PrepConsumedByCommit(pbk, key) == Restrict(pbk, (DOMAIN pbk) \ {key})

PrepAfterCommit(pbk, key) == pbk

OnCommit(st, key, name, t) ==
    IF ~Has(st.prepByKey, key)
    THEN CommitMiss(st, key, name)
    ELSE LET c == NewCommit(st, key, name, t)
         IN [st EXCEPT !.commitByKey = Put(@, key, c),
                       !.commitByName = Put(@, name, c),
                       !.prepByKey = PrepAfterCommit(@, key),
                       !.out = [msg |-> "commit", obj |-> c]]

\* ---- pushContainerMetrics ----
\* "c, ok = commitByName[initialPrep.Parent]": the name the walk starts at
\* variant: the walk starts at the container's own completed preparation
WalkStartAtOwnCommit(st, id) ==
    IF Has(st.commitByKey, id) THEN st.commitByKey[id].Name
    ELSE st.prepByKey[id].Parent

WalkStart(st, id) == st.prepByKey[id].Parent

\* The loop "for ok { append; TotalPrep += c.Dur; c, ok = commitByName[c.Parent] }".
\* The loop reads the map and never writes it, so an iteration count above
\* the number of entries means that an entry was visited twice and the loop
\* never ends: fuel counts the iterations still allowed.
\* variant: "if ok" in place of "for ok", only the first layer is taken
WalkLoopOnce(byName, name, layers, total, fuel) ==
    IF ~Has(byName, name) THEN [ends |-> TRUE, Layer |-> layers, TotalPrep |-> total]
    ELSE [ends |-> TRUE, Layer |-> Append(layers, NewLayer(byName[name])),
          TotalPrep |-> total + byName[name].Dur]

RECURSIVE WalkLoop(_, _, _, _, _)
WalkLoop(byName, name, layers, total, fuel) ==
    IF ~Has(byName, name) THEN [ends |-> TRUE, Layer |-> layers, TotalPrep |-> total]
    ELSE IF fuel = 0 THEN [ends |-> FALSE, Layer |-> layers, TotalPrep |-> total]
    ELSE LET c == byName[name]
         IN WalkLoop(byName, c.Parent, Append(layers, NewLayer(c)),
                     total + c.Dur, fuel - 1)

\* variant: the loop gives up after one iteration more than there are entries
WalkCutOff(st, id) ==
    [WalkLoop(st.commitByName, WalkStart(st, id), <<>>, 0,
              Cardinality(DOMAIN st.commitByName) + 1) EXCEPT !.ends = TRUE]

Walk(st, id) ==
    WalkLoop(st.commitByName, WalkStart(st, id), <<>>, 0,
             Cardinality(DOMAIN st.commitByName))

\* The in-place swap loop "for i, j := 0, len-1; i < j; i, j = i+1, j-1".
\* variant: the swap loop is missing
ReverseMissing(s) == s

Reverse(s) == [i \in 1..Len(s) |-> s[Len(s) + 1 - i]]

InstanceID(image) ==
    LET segs == Split(image, "/")
    IN IF Len(segs) = 3 THEN segs[3] ELSE <<>>

ImagePulled(id, image, parent, w) ==
    [msg |-> "image pulled",
     instanceId |-> InstanceID(image),
     image |-> [Name |-> image, TotalPrep |-> w.TotalPrep, Layer |-> Reverse(w.Layer)],
     id |-> id,
     initialPrep |-> parent]

\* "if !ok { log; return }"
\* variant: no early return, an empty timeline is logged
CreateMissReportsEmpty(st, id, image) ==
    [st EXCEPT !.out = [msg |-> "image pulled", instanceId |-> <<>>,
                        image |-> [Name |-> image, TotalPrep |-> 0, Layer |-> <<>>],
                        id |-> id, initialPrep |-> ""]]

CreateMiss(st, id, image) ==
    [st EXCEPT !.out = [msg |-> "image witout prep", image |-> image, id |-> id]]

\* variant: the Prep of the container is deleted once its timeline is logged
OnCreateConsumesPrep(st, id, image) ==
    IF ~Has(st.prepByKey, id)
    THEN CreateMiss(st, id, image)
    ELSE LET w == Walk(st, id)
         IN IF w.ends
            THEN [st EXCEPT !.out = ImagePulled(id, image, st.prepByKey[id].Parent, w),
                            !.prepByKey = Restrict(@, (DOMAIN @) \ {id})]
            ELSE [st EXCEPT !.out = [msg |-> "none"], !.pc = "walk"]

OnCreate(st, id, image) ==
    IF ~Has(st.prepByKey, id)
    THEN CreateMiss(st, id, image)
    ELSE LET w == Walk(st, id)
         IN IF w.ends
            THEN [st EXCEPT !.out = ImagePulled(id, image, st.prepByKey[id].Parent, w)]
            ELSE \* the walk loop never returns
                 [st EXCEPT !.out = [msg |-> "none"], !.pc = "walk"]

\* ---- one iteration of the for loop of serveContainerdMetrics ----
Dispatch(st, ev, t) ==
    CASE ev.kind = "undecodable" -> OnUndecodable(st)
      [] ev.kind = "SnapshotPrepare" -> OnPrepare(st, ev.Key, ev.Parent, t)
      [] ev.kind = "SnapshotCommit" -> OnCommit(st, ev.Key, ev.Name, t)
      [] ev.kind = "SnapshotRemove" -> [st EXCEPT !.out = [msg |-> "snapshot remove", obj |-> ev]]
      [] ev.kind = "ImageDelete" -> [st EXCEPT !.out = [msg |-> "image delete", obj |-> ev]]
      [] ev.kind = "ContainerCreate" -> OnCreate(st, ev.ID, ev.Image)
      [] OTHER -> [st EXCEPT !.out = [msg |-> "none"]]

Handle(st, ev, t) == [Dispatch(st, ev, t) EXCEPT !.now = t, !.e = ev]

InitLoop ==
    /\ prepByKey = EmptyMap
    /\ commitByKey = EmptyMap
    /\ commitByName = EmptyMap
    /\ now = 0
    /\ pc = "select"
    /\ e = [kind |-> "none"]
    /\ out = [msg |-> "none"]
    /\ solo = [x \in Pulls |-> InitState]
    /\ sigChan = <<>>
    /\ errs = <<>>
    /\ ret = "running"

Init ==
    /\ InitLoop
    /\ objKey = <<>>
    /\ namespace \in Namespaces
    /\ looked = [lister |-> "none"]

\* case e = <-evts: the loop takes event ev and handles it; t is the clock
\* reading while it is handled
Do(ev, t) ==
    /\ pc = "select"
    /\ t \in (now + 1)..MaxClock
    /\ \E st \in {Handle(cur, ev, t)} :
          /\ prepByKey' = st.prepByKey
          /\ commitByKey' = st.commitByKey
          /\ commitByName' = st.commitByName
          /\ now' = st.now
          /\ pc' = st.pc
          /\ e' = st.e
          /\ out' = st.out
    /\ UNCHANGED <<chans, lookup>>

SkipEvent(t) == Do(EvUndecodable, t) /\ UNCHANGED solo

SnapshotPrepare(key, parent, t) == Do(EvPrepare(key, parent), t) /\ UNCHANGED solo

SnapshotCommit(key, name, t) == Do(EvCommit(key, name), t) /\ UNCHANGED solo

SnapshotRemove(key, t) == Do(EvRemove(key), t) /\ UNCHANGED solo

ImageDelete(image, t) == Do(EvImageDelete(image), t) /\ UNCHANGED solo

OtherEvent(t) == Do(EvOther, t) /\ UNCHANGED solo

ContainerCreate(id, image, t) == Do(EvCreate(id, image), t) /\ UNCHANGED solo

Next ==
    \E t \in (now + 1)..MaxClock :
        \/ SkipEvent(t)
        \/ \E key \in Keys, parent \in Parents : SnapshotPrepare(key, parent, t)
        \/ \E key \in Keys, name \in Names : SnapshotCommit(key, name, t)
        \/ \E key \in Keys : SnapshotRemove(key, t)
        \/ \E image \in Images : ImageDelete(image, t)
        \/ OtherEvent(t)
        \/ \E id \in Keys, image \in Images : ContainerCreate(id, image, t)

Spec == Init /\ [][Next]_vars

\* ---- two independent image pulls, arbitrarily interleaved ----
\* The loop handles an event of pull x; solo[x] handles the same event with
\* the same clock reading and sees no event of the other pull.
SoloHandles(x, ev, t) == solo' = [solo EXCEPT ![x] = Handle(@, ev, t)]

PullPrepare(x, key, parent, t) ==
    Do(EvPrepare(key, parent), t) /\ SoloHandles(x, EvPrepare(key, parent), t)

PullCommit(x, key, name, t) ==
    Do(EvCommit(key, name), t) /\ SoloHandles(x, EvCommit(key, name), t)

PullCreate(x, id, t) ==
    Do(EvCreate(id, ImageOf(x)), t) /\ SoloHandles(x, EvCreate(id, ImageOf(x)), t)

NextPair ==
    \E t \in (now + 1)..MaxClock :
        \/ \E x \in Pulls :
              \/ \E key \in KeysOf(x), parent \in NamesOf(x) \cup {""} :
                    PullPrepare(x, key, parent, t)
              \/ \E key \in KeysOf(x), name \in NamesOf(x) : PullCommit(x, key, name, t)
              \/ \E id \in KeysOf(x) : PullCreate(x, id, t)
        \/ SkipEvent(t)
        \/ \E key \in Keys : SnapshotRemove(key, t)
        \/ \E image \in Images : ImageDelete(image, t)
        \/ OtherEvent(t)

SpecPair == Init /\ [][NextPair]_vars

\* ---- the three-way select ----
\* signal.Notify(sigChan, os.Interrupt, syscall.SIGTERM): the runtime puts
\* the signal into the channel if its one-slot buffer is free and drops it
\* otherwise
SignalNotify(sig) ==
    /\ pc \in {"select", "walk"}
    /\ Len(sigChan) < 1
    /\ sigChan' = Append(sigChan, sig)
    /\ UNCHANGED <<store, now, pc, e, out, solo, errs, ret, lookup>>

\* the subscription reports a transport error on errs
TransportError(err) ==
    /\ pc \in {"select", "walk"}
    /\ errs = <<>>
    /\ errs' = <<err>>
    /\ UNCHANGED <<store, now, pc, e, out, solo, sigChan, ret, lookup>>

\* variant: the error is logged and the loop waits again
ErrorRetried(err) == [pc |-> "select", ret |-> "running"]

\* "case err := <-errs: return err"
ErrorReturned(err) == [pc |-> "returned", ret |-> err]

RecvError ==
    /\ pc = "select"
    /\ errs # <<>>
    /\ errs' = Tail(errs)
    /\ pc' = ErrorReturned(Head(errs)).pc
    /\ ret' = ErrorReturned(Head(errs)).ret
    /\ UNCHANGED <<store, now, e, out, solo, sigChan, lookup>>

\* "case <-sigChan: return nil"
RecvSignal ==
    /\ pc = "select"
    /\ sigChan # <<>>
    /\ sigChan' = Tail(sigChan)
    /\ pc' = "returned"
    /\ ret' = "nil"
    /\ UNCHANGED <<store, now, e, out, solo, errs, lookup>>

\* select takes any one of the cases that can proceed
NextSelect ==
    \/ \E sig \in Signals : SignalNotify(sig)
    \/ \E err \in Errors : TransportError(err)
    \/ RecvError
    \/ RecvSignal
    \/ \E t \in (now + 1)..MaxClock :
          \/ SkipEvent(t)
          \/ \E key \in SelKeys, parent \in SelParents : SnapshotPrepare(key, parent, t)
          \/ \E key \in SelKeys, name \in SelNames : SnapshotCommit(key, name, t)
          \/ \E key \in SelKeys : SnapshotRemove(key, t)
          \/ \E image \in SelImages : ImageDelete(image, t)
          \/ OtherEvent(t)
          \/ \E id \in SelKeys, image \in SelImages : ContainerCreate(id, image, t)

SpecSelect == Init /\ [][NextSelect]_vars

\* ---- stateHolder: the keyed lookups ----
\* variant: a key without namespace gets the default namespace
GetObjectKeyDefaultsBare(input, defNs) ==
    LET nsName == Split(input, "/")
    IN IF Len(nsName) = 1 THEN defNs \o <<"/">> \o input ELSE input

GetObjectKey(input, defNs) ==
    LET nsName == Split(input, "/")
    IN IF Len(nsName) = 0 THEN defNs \o <<"/">> \o input ELSE input

\* sh.listers.<lister>.ByKey(k): the lookup the lister is asked for
ByKey(lister, k) == [lister |-> lister, key |-> k]

GetConfigMap ==
    /\ looked' = ByKey("ConfigMap", GetObjectKey(objKey, namespace))
    /\ UNCHANGED <<store, now, pc, e, out, solo, chans, objKey, namespace>>

GetSecret ==
    /\ looked' = ByKey("Secret", GetObjectKey(objKey, namespace))
    /\ UNCHANGED <<store, now, pc, e, out, solo, chans, objKey, namespace>>

GetService ==
    /\ looked' = ByKey("Service", GetObjectKey(objKey, namespace))
    /\ UNCHANGED <<store, now, pc, e, out, solo, chans, objKey, namespace>>

InitKey ==
    /\ InitLoop
    /\ objKey \in KeyInputs
    /\ namespace \in Namespaces
    /\ looked = [lister |-> "none"]

NextKey == GetConfigMap \/ GetSecret \/ GetService

SpecKey == InitKey /\ [][NextKey]_vars

\* ==== properties ====
\* The state after an event was handled: e is the event, out what its
\* handler logged, now the clock reading it was handled at.
Created == e.kind = "ContainerCreate"
Reported == Created /\ out.msg = "image pulled"
Stepped == now' # now

\* sequences without repetition over S, of length 1..|S|
InjSeqs(S) ==
    UNION { { s \in [1..n -> S] : \A i, j \in 1..n : i # j => s[i] # s[j] } :
            n \in 1..Cardinality(S) }

\* ch lists, base first, completed preparations found by name, each one the
\* recorded parent of the next; the base's parent names nothing; top names the last
IsChain(ch, top) ==
    /\ \A i \in 1..(Len(ch) - 1) :
          commitByName[ch[i + 1]].Parent = commitByName[ch[i]].Name
    /\ ~Has(commitByName, commitByName[ch[1]].Parent)
    /\ top = commitByName[ch[Len(ch)]].Name

RECURSIVE SumDur(_, _)
SumDur(ch, i) == IF i = 0 THEN 0 ELSE commitByName[ch[i]].Dur + SumDur(ch, i - 1)

\* C1: when container-created(C) is handled while a chain L1..Ln (n >= 1,
\* distinct names, each the parent of the next, L1's parent naming nothing)
\* ends in the parent of C's Prep, the logged layer list is exactly
\* [L1, ..., Ln], base first, each with its duration, and TotalPrep is the
\* sum of the n durations.
C1_ChainOrder ==
    (Created /\ Has(prepByKey, e.ID)) =>
        \A ch \in InjSeqs(DOMAIN commitByName) :
            IsChain(ch, prepByKey[e.ID].Parent) =>
                /\ pc = "select"
                /\ out.msg = "image pulled"
                /\ out.image.Layer =
                     [i \in 1..Len(ch) |->
                        [ID |-> commitByName[ch[i]].Name, Prep |-> commitByName[ch[i]].Dur]]
                /\ out.image.TotalPrep = SumDur(ch, Len(ch))

C1_Witness ==
    /\ Reported
    /\ Len(out.image.Layer) = 2
    /\ out.image.Layer[1].Prep # out.image.Layer[2].Prep
    /\ IsChain(<<out.image.Layer[1].ID, out.image.Layer[2].ID>>, prepByKey[e.ID].Parent)

\* C2: with two pulls on disjoint keys and names, in every interleaving the
\* handling of a pull's container-created event logs exactly what the same
\* code logs when it handles that pull's events alone with the same clock
\* readings (same layers, durations and total), and ends the same way.
C2_InterleavingIndependent ==
    \A x \in Pulls :
        (Created /\ e.ID \in KeysOf(x)) => (out = solo[x].out /\ pc = solo[x].pc)

\* Six events at the clock readings 1..6: pull A's start, commit, start and
\* create with pull B's start and commit between them.
C2_Witness ==
    /\ Reported
    /\ e.ID = "a"
    /\ now = 6
    /\ Len(out.image.Layer) = 1
    /\ Has(commitByKey, "b")
    /\ prepByKey["b"].T >= 2
    /\ prepByKey["b"].T < prepByKey["a"].T

\* C3: the handling of every container-created event finishes its chain walk
\* and the loop goes on to the next event.
C3_WalkAlwaysFinishes == Created => pc = "select"

\* C4: a preparation-committed(K, N) event handled while prepByKey has no
\* entry for K leaves the three maps unchanged, leaves no Commit of key K
\* under any index, only logs, and the loop continues.
C4_CommitWithoutStart ==
    [][ (Stepped /\ e'.kind = "SnapshotCommit" /\ ~Has(prepByKey, e'.Key)) =>
          /\ store' = store
          /\ pc' = "select"
          /\ out'.msg = "found commit without prep"
          /\ ~Has(commitByKey', e'.Key)
          /\ \A n \in DOMAIN commitByName' : commitByName'[n].Key # e'.Key ]_vars

C4_Witness ==
    /\ e.kind = "SnapshotCommit"
    /\ ~Has(prepByKey, e.Key)
    /\ Has(commitByName, e.Name)
    /\ out.msg = "found commit without prep"

\* C5: a container-created(C) event handled while prepByKey has no entry for
\* C logs no timeline, and the loop continues.
C5_NoPrepNoTimeline ==
    (Created /\ ~Has(prepByKey, e.ID)) =>
        (out.msg = "image witout prep" /\ pc = "select")

C5_Witness ==
    /\ Created
    /\ ~Has(prepByKey, e.ID)
    /\ commitByName # EmptyMap
    /\ out.msg # "image pulled"

\* C6: a container-created(C) event whose Prep has a parent that is empty or
\* names no completed preparation logs a timeline with no layer and a zero
\* total.
C6_ZeroLayers ==
    (Created /\ Has(prepByKey, e.ID) /\ ~Has(commitByName, prepByKey[e.ID].Parent)) =>
        /\ pc = "select"
        /\ out.msg = "image pulled"
        /\ out.image.Layer = <<>>
        /\ out.image.TotalPrep = 0

C6_Witness ==
    /\ Reported
    /\ prepByKey[e.ID].Parent = ""
    /\ Has(commitByKey, e.ID)
    /\ out.image.Layer = <<>>

\* C7: preparation-started(K, P) handled at t_start records (t_start, P)
\* under K; events for other keys leave that record alone; a following
\* preparation-committed(K, N) handled at t_commit indexes under K and under
\* N the Commit (t_commit - t_start, N, P, K).
C7_StartCommitMatching ==
    [][ /\ (Stepped /\ e'.kind = "SnapshotPrepare") =>
              prepByKey'[e'.Key] = [T |-> now', Parent |-> e'.Parent, Name |-> ""]
        /\ \A k \in DOMAIN prepByKey :
              (Stepped /\ ~(e'.kind \in {"SnapshotPrepare", "SnapshotCommit"} /\ e'.Key = k)) =>
                  prepByKey'[k] = prepByKey[k]
        /\ (Stepped /\ e'.kind = "SnapshotCommit" /\ Has(prepByKey, e'.Key)) =>
              LET c == [Dur |-> now' - prepByKey[e'.Key].T, Name |-> e'.Name,
                        Parent |-> prepByKey[e'.Key].Parent, Key |-> e'.Key]
              IN commitByKey'[e'.Key] = c /\ commitByName'[e'.Name] = c ]_vars

\* a commit whose start lies two or more readings back, with the start of
\* another key handled in between
C7_Witness ==
    /\ e.kind = "SnapshotCommit"
    /\ Has(commitByKey, e.Key)
    /\ commitByKey[e.Key].Dur >= 2
    /\ commitByKey[e.Key].Parent # ""
    /\ \E k \in DOMAIN prepByKey :
          k # e.Key /\ prepByKey[k].T > prepByKey[e.Key].T

\* C8: the Commit found under a key of commitByKey, or under a name of
\* commitByName, is never replaced by a different one.
C8_CommitNeverChanges ==
    [][ /\ \A k \in DOMAIN commitByKey : commitByKey'[k] = commitByKey[k]
        /\ \A n \in DOMAIN commitByName : commitByName'[n] = commitByName[n] ]_vars

\* C9: every Commit in commitByKey or commitByName has a key that prepByKey
\* holds a Prep for.
C9_CommitHasPrep ==
    /\ \A k \in DOMAIN commitByKey : Has(prepByKey, commitByKey[k].Key)
    /\ \A n \in DOMAIN commitByName : Has(prepByKey, commitByName[n].Key)

C9_Witness ==
    \E k \in DOMAIN commitByKey : \E n \in DOMAIN commitByName :
        /\ commitByName[n].Key = k
        /\ commitByKey[k].Name # n
        /\ prepByKey[k].Parent # commitByKey[k].Parent

\* C10 as claimed: no layer of a logged timeline stems from a Commit whose
\* key is the container id.
C10_NoLayerOfKeyC ==
    Reported =>
        \A i \in 1..Len(out.image.Layer) :
            commitByName[out.image.Layer[i].ID].Key # e.ID

\* C10 as amended: the walk starts at the parent of C's Prep, and no layer
\* of a logged timeline stems from a Commit made from C's current Prep (key
\* C and the parent that Prep records).
C10_OwnPrepExcluded ==
    Reported =>
        LET ls == out.image.Layer
            parent == prepByKey[e.ID].Parent
        IN /\ \A i \in 1..Len(ls) :
                 ~(/\ commitByName[ls[i].ID].Key = e.ID
                   /\ commitByName[ls[i].ID].Parent = parent)
           /\ Len(ls) > 0 => ls[Len(ls)].ID = parent
           /\ Len(ls) = 0 => ~Has(commitByName, parent)

\* a logged layer that an earlier preparation under the container's key made
C10_Witness ==
    /\ Reported
    /\ \E i \in 1..Len(out.image.Layer) :
          commitByName[out.image.Layer[i].ID].Key = e.ID

\* C13: the layers of a logged timeline are exactly the Commits the walk
\* visits from the parent of C's Prep up to the first name commitByName has
\* no entry for: base first, each the recorded parent of the next, each with
\* its duration, TotalPrep their sum; nothing else is logged and the loop
\* continues.
C13_PartialChain ==
    Reported =>
        LET ls == out.image.Layer
            n == Len(ls)
            top == prepByKey[e.ID].Parent
        IN /\ pc = "select"
           /\ n = 0 => ~Has(commitByName, top)
           /\ n > 0 => (ls[n].ID = top /\ ~Has(commitByName, commitByName[ls[1].ID].Parent))
           /\ \A i \in 1..n : Has(commitByName, ls[i].ID) /\ ls[i].Prep = commitByName[ls[i].ID].Dur
           /\ \A i \in 1..(n - 1) : commitByName[ls[i + 1].ID].Parent = ls[i].ID
           /\ out.image.TotalPrep = SumDur([i \in 1..n |-> ls[i].ID], n)

\* a timeline that stops at a parent name that was never committed
C13_Witness ==
    /\ Reported
    /\ Len(out.image.Layer) = 1
    /\ commitByName[out.image.Layer[1].ID].Parent # ""
    /\ ~Has(commitByName, commitByName[out.image.Layer[1].ID].Parent)
    /\ out.image.TotalPrep >= 2

\* C14: preparation-started(K, P2) handled while a Prep for K exists replaces
\* it by (clock reading, P2) and the loop continues; a matched
\* preparation-committed(K, N) takes parent and start from the Prep then
\* found under K.
C14_LastWriterWins ==
    [][ /\ (Stepped /\ e'.kind = "SnapshotPrepare" /\ Has(prepByKey, e'.Key)) =>
              /\ prepByKey'[e'.Key].T = now'
              /\ prepByKey'[e'.Key].Parent = e'.Parent
              /\ DOMAIN prepByKey' = DOMAIN prepByKey
              /\ pc' = "select"
        /\ (Stepped /\ e'.kind = "SnapshotCommit" /\ Has(prepByKey, e'.Key)) =>
              /\ commitByKey'[e'.Key].Parent = prepByKey[e'.Key].Parent
              /\ commitByKey'[e'.Key].Dur = now' - prepByKey[e'.Key].T ]_vars

\* a commit of a key that an earlier commit shows to have been started with
\* another parent
C14_Witness ==
    /\ e.kind = "SnapshotCommit"
    /\ Has(commitByKey, e.Key)
    /\ commitByKey[e.Key].Name = e.Name
    /\ \E n \in DOMAIN commitByName :
          /\ n # e.Name
          /\ commitByName[n].Key = e.Key
          /\ commitByName[n].Parent # commitByKey[e.Key].Parent

\* C15: no event removes a key from prepByKey, commitByKey or commitByName,
\* and a matched preparation-committed(K, N) leaves the Prep of K as it was.
C15_NothingRemoved ==
    [][ /\ DOMAIN prepByKey \subseteq DOMAIN prepByKey'
        /\ DOMAIN commitByKey \subseteq DOMAIN commitByKey'
        /\ DOMAIN commitByName \subseteq DOMAIN commitByName'
        /\ (Stepped /\ e'.kind = "SnapshotCommit" /\ Has(prepByKey, e'.Key)) =>
              (Has(prepByKey', e'.Key) /\ prepByKey'[e'.Key] = prepByKey[e'.Key]) ]_vars

C15_Witness ==
    /\ e.kind = "SnapshotCommit"
    /\ Has(commitByKey, e.Key)
    /\ Has(prepByKey, e.Key)
    /\ commitByKey[e.Key].Dur = now - prepByKey[e.Key].T
    /\ Cardinality(DOMAIN commitByName) = 2

\* C16: a snapshot-removed, image-deleted, unrecognized or undecodable event
\* leaves the three maps unchanged and the loop goes on to the next event.
C16_NoCorrelationEffect ==
    [][ (Stepped /\ e'.kind \in {"SnapshotRemove", "ImageDelete", "other", "undecodable"}) =>
            (store' = store /\ pc' = "select") ]_vars

C16_Witness ==
    /\ e.kind \in {"SnapshotRemove", "ImageDelete", "other", "undecodable"}
    /\ commitByName # EmptyMap
    /\ pc = "select"

\* C17: the Commit found under the name of commitByKey[K] is commitByKey[K],
\* and the Commit found under the key of commitByName[N] is commitByName[N].
C17_IndexesConsistent ==
    /\ \A k \in DOMAIN commitByKey :
          /\ Has(commitByName, commitByKey[k].Name)
          /\ commitByName[commitByKey[k].Name] = commitByKey[k]
    /\ \A n \in DOMAIN commitByName :
          /\ Has(commitByKey, commitByName[n].Key)
          /\ commitByKey[commitByName[n].Key] = commitByName[n]

\* C18: container-created leaves the three maps unchanged, and handled twice
\* in a row for the same id it logs the same layers and total (the same
\* record when the image reference is the same too).
C18_ReadOnly ==
    [][ (Stepped /\ e'.kind = "ContainerCreate") =>
          /\ store' = store
          /\ (e.kind = "ContainerCreate" /\ e.ID = e'.ID) =>
                /\ out'.msg = out.msg
                /\ pc' = pc
                /\ out.msg = "image pulled" =>
                      /\ out'.image.Layer = out.image.Layer
                      /\ out'.image.TotalPrep = out.image.TotalPrep
                /\ e.Image = e'.Image => out' = out ]_vars

C18_Witness ==
    /\ Reported
    /\ Len(out.image.Layer) >= 1
    /\ now >= 5
    /\ \A k \in DOMAIN prepByKey : prepByKey[k].T <= now - 2

\* C19: the layer identifiers of a logged timeline are pairwise distinct.
C19_NoDuplicateLayers ==
    Reported =>
        \A i, j \in 1..Len(out.image.Layer) :
            i # j => out.image.Layer[i].ID # out.image.Layer[j].ID

C19_Witness ==
    /\ Reported
    /\ Len(out.image.Layer) = 2
    /\ out.image.Layer[1].Prep = out.image.Layer[2].Prep

\* C11: while a signal is pending on sigChan the loop handles no event.
C11_SignalFirst ==
    [][ sigChan # <<>> => ~Stepped ]_vars

\* C12: receiving from errs makes serveContainerdMetrics return the received
\* error without touching the maps, and after the return no event is
\* handled and no map changes.
C12_TransportErrorFatal ==
    [][ /\ (errs # <<>> /\ errs' # errs) =>
              (pc' = "returned" /\ ret' = Head(errs) /\ store' = store /\ ~Stepped)
        /\ pc = "returned" => (store' = store /\ ~Stepped /\ pc' = pc /\ ret' = ret) ]_vars

C12_Witness ==
    /\ pc = "returned"
    /\ ret \in Errors
    /\ errs = <<>>
    /\ sigChan # <<>>
    /\ commitByName # EmptyMap

\* C20: every lookup hands to ByKey exactly the key it was called with:
\* getObjectKey returns its input, whose split never has zero parts.
C20_KeyUnchanged ==
    looked.lister # "none" =>
        /\ looked.key = objKey
        /\ Len(Split(objKey, "/")) >= 1

\* a lookup of a key that names no namespace
C20_Witness ==
    /\ looked.lister = "ConfigMap"
    /\ Len(objKey) = 2
    /\ \A i \in 1..Len(objKey) : objKey[i] # "/"

====
